---- MODULE Spec2Model ----
(***************************************************************************)
(* A model of MultiKeyMap (src/src/lib.rs, src/src/entry.rs): a map in     *)
(* which several keys may share one reference-counted value.               *)
(*                                                                         *)
(*   keys      : HashMap<K, Index>         the alias table                 *)
(*   data      : HashMap<Index, (usize,V)> the group table                 *)
(*   max_index : Index                     the identifier counter          *)
(*   last      : the branch of the code the last call took                 *)
(*                                                                         *)
(* Every public operation is one action.  A failed unwrap is a panic: the  *)
(* tables keep what the call had written before the panic, last.path is    *)
(* "panic", and nothing is called afterwards.                              *)
(***************************************************************************)
EXTENDS Integers, Sequences, FiniteSets, TLC

VARIABLES keys, data, max_index, last

vars == <<keys, data, max_index, last>>

----------------------------------------------------------------------------
(* Bounds of the model. *)

\* allocations stop once max_index has reached MaxIndex
MaxIndex == 2
\* longest key sequence handed to alias_many, insert_many, remove_many
MaxLen == 2
\* alias and alias_many stop before a count exceeds MaxCount
MaxCount == 2

Keys == {"a", "b"}
Values == {0, 1}
KeySeqs == UNION {[1 .. n -> Keys] : n \in 0 .. MaxLen}

\* <V as Default>::default() for an integer V
DefaultVal == 0

\* no reference is returned, or no slot was resolved
NoSlot == <<>>

----------------------------------------------------------------------------
(* HashMap primitives. *)

\* HashMap::insert
Put(f, k, v) == [x \in DOMAIN f \cup {k} |-> IF x = k THEN v ELSE f[x]]

\* HashMap::remove
Del(f, k) == [x \in DOMAIN f \ {k} |-> f[x]]

EmptyMap == [x \in {} |-> 0]

\* Option<V>: None is <<>>, Some(v) is <<v>>
None == <<>>
Some(v) == <<v>>

\* what a call leaves behind: the three fields of the map, the branch taken
\* (calls that run the same code, such as the or_insert family, share names),
\* the returned value(s), the key(s) handed back by Err, and the slot a
\* returned reference points into
Outcome(ks, dt, mx, path, ret, rej, slot) ==
    [keys |-> ks, data |-> dt, max_index |-> mx,
     path |-> path, ret |-> ret, rej |-> rej, slot |-> slot]

Panic(ks, dt, mx) == Outcome(ks, dt, mx, "panic", None, <<>>, NoSlot)

----------------------------------------------------------------------------
(* Queries. *)

contains_key(ks, k) == k \in DOMAIN ks

get(ks, dt, k) ==
    IF k \in DOMAIN ks /\ ks[k] \in DOMAIN dt THEN Some(dt[ks[k]].v) ELSE None

----------------------------------------------------------------------------
(* MultiKeyMap::insert *)

\* insert without the detach branch: a shared group is overwritten in place
insert_overwrite_shared(ks, dt, mx, k, v) ==
    IF contains_key(ks, k)
    THEN LET idx == ks[k] IN
         IF idx \notin DOMAIN dt
         THEN Panic(ks, dt, mx)
         ELSE Outcome(ks, Put(dt, idx, [count |-> dt[idx].count, v |-> v]), mx,
                      "overwrite", Some(dt[idx].v), <<>>, NoSlot)
    ELSE Outcome(Put(ks, k, mx), Put(dt, mx, [count |-> 1, v |-> v]), mx + 1,
                 "fresh", None, <<>>, NoSlot)

insert(ks, dt, mx, k, v) ==
    IF contains_key(ks, k)
    THEN LET idx == ks[k] IN
         IF idx \notin DOMAIN dt
         THEN Panic(ks, dt, mx)
         ELSE IF dt[idx].count <= 1
              THEN Outcome(ks, Put(dt, idx, [count |-> 1, v |-> v]), mx,
                           "overwrite", Some(dt[idx].v), <<>>, NoSlot)
              ELSE Outcome(Put(ks, k, mx),
                           Put([dt EXCEPT ![idx].count = @ - 1], mx,
                               [count |-> 1, v |-> v]),
                           mx + 1, "detach", None, <<>>, NoSlot)
    ELSE Outcome(Put(ks, k, mx), Put(dt, mx, [count |-> 1, v |-> v]), mx + 1,
                 "fresh", None, <<>>, NoSlot)

(* MultiKeyMap::alias *)

\* alias that takes an identifier before it looks the base key up
alias_allocates_first(ks, dt, mx, k, newKey) ==
    IF contains_key(ks, k)
    THEN LET idx == ks[k] IN
         IF idx \notin DOMAIN dt
         THEN Panic(ks, dt, mx + 1)
         ELSE Outcome(Put(ks, newKey, idx),
                      [dt EXCEPT ![idx].count = @ + 1], mx + 1,
                      "ok", Some(dt[idx].v), <<>>, Some(idx))
    ELSE Outcome(ks, dt, mx + 1, "err", None, <<newKey>>, NoSlot)

\* alias that gives the new key a copy of the value in a slot of its own
alias_copies_value(ks, dt, mx, k, newKey) ==
    IF contains_key(ks, k)
    THEN LET idx == ks[k] IN
         IF idx \notin DOMAIN dt
         THEN Panic(ks, dt, mx)
         ELSE Outcome(Put(ks, newKey, mx),
                      Put(dt, mx, [count |-> 1, v |-> dt[idx].v]), mx + 1,
                      "ok", Some(dt[idx].v), <<>>, Some(mx))
    ELSE Outcome(ks, dt, mx, "err", None, <<newKey>>, NoSlot)

\* alias that adds the key without counting it
alias_keeps_count(ks, dt, mx, k, newKey) ==
    IF contains_key(ks, k)
    THEN LET idx == ks[k] IN
         IF idx \notin DOMAIN dt
         THEN Panic(ks, dt, mx)
         ELSE Outcome(Put(ks, newKey, idx), dt, mx, "ok", Some(dt[idx].v),
                      <<>>, Some(idx))
    ELSE Outcome(ks, dt, mx, "err", None, <<newKey>>, NoSlot)

alias(ks, dt, mx, k, newKey) ==
    IF contains_key(ks, k)
    THEN LET idx == ks[k] IN
         IF idx \notin DOMAIN dt
         THEN Panic(ks, dt, mx)
         ELSE Outcome(Put(ks, newKey, idx),
                      [dt EXCEPT ![idx].count = @ + 1], mx,
                      "ok", Some(dt[idx].v), <<>>, Some(idx))
    ELSE Outcome(ks, dt, mx, "err", None, <<newKey>>, NoSlot)

(* MultiKeyMap::alias_many *)

RECURSIVE alias_many_loop(_, _, _, _, _)
alias_many_loop(ks, dt, idx, aliases, i) ==
    IF i > Len(aliases)
    THEN [keys |-> ks, data |-> dt]
    ELSE alias_many_loop(Put(ks, aliases[i], idx),
                         [dt EXCEPT ![idx].count = @ + 1], idx, aliases, i + 1)

alias_many(ks, dt, mx, k, aliases) ==
    IF contains_key(ks, k)
    THEN LET idx == ks[k] IN
         IF idx \notin DOMAIN dt
         THEN Panic(ks, dt, mx)
         ELSE LET r == alias_many_loop(ks, dt, idx, aliases, 1) IN
              Outcome(r.keys, r.data, mx, "ok_many", Some(dt[idx].v), <<>>,
                      Some(idx))
    ELSE Outcome(ks, dt, mx, "err_many", None, aliases, NoSlot)

(* MultiKeyMap::get_mut, followed by a write of v through the reference *)

get_mut(ks, dt, mx, k, v) ==
    IF k \in DOMAIN ks /\ ks[k] \in DOMAIN dt
    THEN Outcome(ks, [dt EXCEPT ![ks[k]].v = v], mx, "some", Some(dt[ks[k]].v),
                 <<>>, Some(ks[k]))
    ELSE Outcome(ks, dt, mx, "none", None, <<>>, NoSlot)

(* MultiKeyMap::insert_many *)

\* the loop with the evicted sole owner redirected to the fresh slot as well
RECURSIVE insert_many_loop_redirects(_, _, _, _, _, _, _)
insert_many_loop_redirects(ks, dt, new_idx, new_count, bumped, seq, i) ==
    IF i > Len(seq)
    THEN [keys |-> ks, data |-> dt, new_count |-> new_count,
          bumped |-> bumped, panic |-> FALSE]
    ELSE LET k == seq[i] IN
         IF contains_key(ks, k)
         THEN LET idx == ks[k] IN
              IF idx \notin DOMAIN dt
              THEN [keys |-> ks, data |-> dt, new_count |-> new_count,
                    bumped |-> bumped, panic |-> TRUE]
              ELSE IF dt[idx].count <= 1
                   THEN insert_many_loop_redirects(Put(ks, k, new_idx),
                            Del(dt, idx), new_idx, new_count + 1,
                            Append(bumped, dt[idx].v), seq, i + 1)
                   ELSE insert_many_loop_redirects(Put(ks, k, new_idx),
                            [dt EXCEPT ![idx].count = @ - 1], new_idx,
                            new_count + 1, bumped, seq, i + 1)
         ELSE insert_many_loop_redirects(Put(ks, k, new_idx), dt, new_idx,
                                         new_count + 1, bumped, seq, i + 1)

\* the loop over ks[i ..], with the locals new_count and bumped
RECURSIVE insert_many_loop(_, _, _, _, _, _, _)
insert_many_loop(ks, dt, new_idx, new_count, bumped, seq, i) ==
    IF i > Len(seq)
    THEN [keys |-> ks, data |-> dt, new_count |-> new_count,
          bumped |-> bumped, panic |-> FALSE]
    ELSE LET k == seq[i] IN
         IF contains_key(ks, k)
         THEN LET idx == ks[k] IN
              IF idx \notin DOMAIN dt
              THEN [keys |-> ks, data |-> dt, new_count |-> new_count,
                    bumped |-> bumped, panic |-> TRUE]
              ELSE IF dt[idx].count <= 1
                   THEN insert_many_loop(ks, Del(dt, idx), new_idx, new_count,
                                         Append(bumped, dt[idx].v), seq, i + 1)
                   ELSE insert_many_loop(Put(ks, k, new_idx),
                                         [dt EXCEPT ![idx].count = @ - 1],
                                         new_idx, new_count + 1, bumped, seq,
                                         i + 1)
         ELSE insert_many_loop(Put(ks, k, new_idx), dt, new_idx, new_count + 1,
                               bumped, seq, i + 1)

insert_many(ks, dt, mx, seq, v) ==
    LET r == insert_many_loop(ks, dt, mx, 0, <<>>, seq, 1) IN
    IF r.panic
    THEN Panic(r.keys, r.data, mx + 1)
    ELSE Outcome(r.keys, Put(r.data, mx, [count |-> r.new_count, v |-> v]),
                 mx + 1, "inserted_many", r.bumped, <<>>, NoSlot)

(* MultiKeyMap::remove *)

\* remove that deletes the group whatever its count
remove_ignores_count(ks, dt, mx, k) ==
    IF contains_key(ks, k)
    THEN LET idx == ks[k] IN
         IF idx \notin DOMAIN dt
         THEN Panic(ks, dt, mx)
         ELSE Outcome(Del(ks, k), Del(dt, idx), mx, "last", Some(dt[idx].v),
                      <<>>, NoSlot)
    ELSE Outcome(ks, dt, mx, "absent", None, <<>>, NoSlot)

\* A key never targets a group of count 0 (KeyedCountPositive below), so the
\* subtraction in the else branch never underflows; the model takes the
\* overflow check's panic there.
remove(ks, dt, mx, k) ==
    IF contains_key(ks, k)
    THEN LET idx == ks[k] IN
         IF idx \notin DOMAIN dt
         THEN Panic(ks, dt, mx)
         ELSE IF dt[idx].count = 1
              THEN Outcome(Del(ks, k), Del(dt, idx), mx, "last",
                           Some(dt[idx].v), <<>>, NoSlot)
              ELSE IF dt[idx].count = 0
                   THEN Panic(ks, dt, mx)
                   ELSE Outcome(Del(ks, k), [dt EXCEPT ![idx].count = @ - 1],
                                mx, "shared", None, <<>>, NoSlot)
    ELSE Outcome(ks, dt, mx, "absent", None, <<>>, NoSlot)

(* MultiKeyMap::remove_many *)

RECURSIVE remove_many_loop(_, _, _, _, _, _)
remove_many_loop(ks, dt, mx, bumped, seq, i) ==
    IF i > Len(seq)
    THEN Outcome(ks, dt, mx, "removed_many", bumped, <<>>, NoSlot)
    ELSE LET r == remove(ks, dt, mx, seq[i]) IN
         IF r.path = "panic"
         THEN r
         ELSE remove_many_loop(r.keys, r.data, mx, bumped \o r.ret, seq, i + 1)

remove_many(ks, dt, mx, seq) == remove_many_loop(ks, dt, mx, <<>>, seq, 1)

----------------------------------------------------------------------------
(* The entry protocol (src/src/entry.rs). *)

\* MultiKeyMap::entry: Occupied carries the slot it resolved, Vacant the key
entry(ks, k) ==
    IF k \in DOMAIN ks
    THEN [tag |-> "Occupied", key |-> k, idx |-> ks[k]]
    ELSE [tag |-> "Vacant", key |-> k, idx |-> NoSlot]

\* OccupiedEntry::into_mut (get and get_mut unwrap the same lookup)
into_mut(ks, dt, mx, e) ==
    IF e.idx \in DOMAIN dt
    THEN Outcome(ks, dt, mx, "occupied", Some(dt[e.idx].v), <<>>, Some(e.idx))
    ELSE Panic(ks, dt, mx)

\* next_index that hands out the counter without advancing it
next_index_keeps_counter(mx) == [idx |-> mx, max_index |-> mx]

\* MultiKeyMap::next_index
next_index(mx) == [idx |-> mx, max_index |-> mx + 1]

\* VacantEntry::insert
vacant_insert(ks, dt, mx, e, value) ==
    LET n == next_index(mx) IN
    Outcome(Put(ks, e.key, n.idx), Put(dt, n.idx, [count |-> 1, v |-> value]),
            n.max_index, "vacant", Some(value), <<>>, Some(n.idx))

\* or_insert that stores v also when the entry is occupied
or_insert_overwrites(ks, dt, mx, k, v) ==
    LET e == entry(ks, k) IN
    IF e.tag = "Occupied"
    THEN IF e.idx \in DOMAIN dt
         THEN Outcome(ks, [dt EXCEPT ![e.idx].v = v], mx, "occupied", Some(v),
                      <<>>, Some(e.idx))
         ELSE Panic(ks, dt, mx)
    ELSE vacant_insert(ks, dt, mx, e, v)

\* Entry::or_insert
or_insert(ks, dt, mx, k, v) ==
    LET e == entry(ks, k) IN
    IF e.tag = "Occupied" THEN into_mut(ks, dt, mx, e)
    ELSE vacant_insert(ks, dt, mx, e, v)

\* Entry::or_insert_with; fv is what the closure returns when it is called
or_insert_with(ks, dt, mx, k, fv) ==
    LET e == entry(ks, k) IN
    IF e.tag = "Occupied" THEN into_mut(ks, dt, mx, e)
    ELSE vacant_insert(ks, dt, mx, e, fv)

\* Entry::or_insert_with_key; f maps the pending key to a value
or_insert_with_key(ks, dt, mx, k, f) ==
    LET e == entry(ks, k) IN
    IF e.tag = "Occupied" THEN into_mut(ks, dt, mx, e)
    ELSE vacant_insert(ks, dt, mx, e, f[e.key])

\* Entry::or_default
or_default(ks, dt, mx, k) ==
    LET e == entry(ks, k) IN
    IF e.tag = "Occupied" THEN into_mut(ks, dt, mx, e)
    ELSE vacant_insert(ks, dt, mx, e, DefaultVal)

\* Entry::and_modify; f maps the current value to the modified one
and_modify(ks, dt, mx, k, f) ==
    LET e == entry(ks, k) IN
    IF e.tag = "Vacant"
    THEN Outcome(ks, dt, mx, "vacant", None, <<>>, NoSlot)
    ELSE IF e.idx \in DOMAIN dt
         THEN Outcome(ks, [dt EXCEPT ![e.idx].v = f[@]], mx, "modified", None,
                      <<>>, NoSlot)
         ELSE Panic(ks, dt, mx)

\* OccupiedEntry::get
occupied_get(ks, dt, mx, e) ==
    IF e.idx \in DOMAIN dt
    THEN Outcome(ks, dt, mx, "occupied", Some(dt[e.idx].v), <<>>, Some(e.idx))
    ELSE Panic(ks, dt, mx)

\* OccupiedEntry::remove
occupied_remove(ks, dt, mx, e) == remove(ks, dt, mx, e.key)

\* remove_entry that goes through the reference-counted remove
remove_entry_counts(ks, dt, mx, e) ==
    LET r == remove(ks, dt, mx, e.key) IN
    Outcome(r.keys, r.data, mx, "removed_entry", r.ret, <<e.key>>, NoSlot)

\* OccupiedEntry::remove_entry: the key comes back in rej, the value in ret
remove_entry(ks, dt, mx, e) ==
    Outcome(Del(ks, e.key), Del(dt, e.idx), mx, "removed_entry",
            IF e.idx \in DOMAIN dt THEN Some(dt[e.idx].v) ELSE None,
            <<e.key>>, NoSlot)

----------------------------------------------------------------------------
(* The pair iterator (src/src/iter.rs). *)

\* the orders in which HashMap::iter may visit the alias table
Orders(ks) ==
    {o \in [1 .. Cardinality(DOMAIN ks) -> DOMAIN ks] :
        \A i, j \in DOMAIN o : i # j => o[i] # o[j]}

\* Iter::new: the alias table's iterator (its order and position) and the
\* group table
iter_new(ks, dt, order) == [order |-> order, pos |-> 1, keys |-> ks, map |-> dt]

\* next that yields each group once, at the first of its keys
iter_next_per_group(it) ==
    IF it.pos > Len(it.order)
    THEN [item |-> None, it |-> it]
    ELSE LET k == it.order[it.pos]
             idx == it.keys[k]
         IN  [item |-> IF /\ idx \in DOMAIN it.map
                          /\ \A j \in 1 .. it.pos - 1 :
                                 it.keys[it.order[j]] # idx
                       THEN Some(<<k, it.map[idx].v>>)
                       ELSE None,
              it |-> [it EXCEPT !.pos = @ + 1]]

\* Iter::next: the item (None, or Some of a pair) and the iterator afterwards
iter_next(it) ==
    IF it.pos > Len(it.order)
    THEN [item |-> None, it |-> it]
    ELSE LET k == it.order[it.pos]
             idx == it.keys[k]
         IN  [item |-> IF idx \in DOMAIN it.map
                       THEN Some(<<k, it.map[idx].v>>)
                       ELSE None,
              it |-> [it EXCEPT !.pos = @ + 1]]

\* the pairs a consumer of the iterator receives (a for loop, collect):
\* next is called until it returns None
RECURSIVE iter_collect(_, _)
iter_collect(it, pairs) ==
    LET n == iter_next(it) IN
    IF n.item = None THEN pairs
    ELSE iter_collect(n.it, Append(pairs, n.item[1]))

\* MultiKeyMap::iter, consumed to its end
iter(ks, dt, order) == iter_collect(iter_new(ks, dt, order), <<>>)

----------------------------------------------------------------------------
(* The state machine. *)

KeyFns == [Keys -> Values]
ValueFns == [Values -> Values]

\* MultiKeyMap::new / Default::default
Init ==
    /\ keys = EmptyMap
    /\ data = EmptyMap
    /\ max_index = 0
    /\ last = [path |-> "new"]

\* a panic ends the run
Alive == last.path # "panic"

\* the model's bounds on the counter and on the counts
InBounds(r) ==
    /\ r.max_index <= MaxIndex
    /\ \A i \in DOMAIN r.data : r.data[i].count <= MaxCount

Apply(r) ==
    /\ Alive
    /\ InBounds(r)
    /\ keys' = r.keys
    /\ data' = r.data
    /\ max_index' = r.max_index
    /\ last' = [path |-> r.path]

Insert(k, v) == Apply(insert(keys, data, max_index, k, v))

Alias(k, newKey) == Apply(alias(keys, data, max_index, k, newKey))

AliasMany(k, aliases) ==
    Apply(alias_many(keys, data, max_index, k, aliases))

GetMut(k, v) == Apply(get_mut(keys, data, max_index, k, v))

InsertMany(seq, v) ==
    Apply(insert_many(keys, data, max_index, seq, v))

Remove(k) == Apply(remove(keys, data, max_index, k))

RemoveMany(seq) == Apply(remove_many(keys, data, max_index, seq))

OrInsert(k, v) == Apply(or_insert(keys, data, max_index, k, v))

OrInsertWith(k, fv) ==
    Apply(or_insert_with(keys, data, max_index, k, fv))

OrInsertWithKey(k, f) ==
    Apply(or_insert_with_key(keys, data, max_index, k, f))

OrDefault(k) == Apply(or_default(keys, data, max_index, k))

AndModify(k, f) == Apply(and_modify(keys, data, max_index, k, f))

\* the Occupied-only methods need an Occupied handle
OccupiedGet(k) ==
    /\ entry(keys, k).tag = "Occupied"
    /\ Apply(occupied_get(keys, data, max_index, entry(keys, k)))

OccupiedRemove(k) ==
    /\ entry(keys, k).tag = "Occupied"
    /\ Apply(occupied_remove(keys, data, max_index, entry(keys, k)))

RemoveEntry(k) ==
    /\ entry(keys, k).tag = "Occupied"
    /\ Apply(remove_entry(keys, data, max_index, entry(keys, k)))

\* MultiKeyMap::iter, consumed in one of the orders the alias table may have
Iter(order) ==
    /\ Alive
    /\ iter(keys, data, order) \in Seq(Keys \X Values)
    /\ last' = [path |-> "iterated"]
    /\ UNCHANGED <<keys, data, max_index>>

\* every operation but insert_many and remove_entry
NextNominal ==
    \/ \E k \in Keys, v \in Values : Insert(k, v)
    \/ \E k \in Keys, v \in Values : GetMut(k, v)
    \/ \E k \in Keys : OccupiedGet(k)
    \/ \E order \in Orders(keys) : Iter(order)
    \/ \E k \in Keys, newKey \in Keys : Alias(k, newKey)
    \/ \E k \in Keys, aliases \in KeySeqs : AliasMany(k, aliases)
    \/ \E k \in Keys : Remove(k)
    \/ \E seq \in KeySeqs : RemoveMany(seq)
    \/ \E k \in Keys, v \in Values : OrInsert(k, v)
    \/ \E k \in Keys, fv \in Values : OrInsertWith(k, fv)
    \/ \E k \in Keys, f \in KeyFns : OrInsertWithKey(k, f)
    \/ \E k \in Keys : OrDefault(k)
    \/ \E k \in Keys, f \in ValueFns : AndModify(k, f)
    \/ \E k \in Keys : OccupiedRemove(k)

Next ==
    \/ NextNominal
    \/ \E seq \in KeySeqs, v \in Values : InsertMany(seq, v)
    \/ \E k \in Keys : RemoveEntry(k)

Spec == Init /\ [][Next]_vars

SpecNominal == Init /\ [][NextNominal]_vars

----------------------------------------------------------------------------
(* Vocabulary of the properties. *)

\* k is in the alias table and its slot is in the group table
Live(ks, dt, k) == k \in DOMAIN ks /\ ks[k] \in DOMAIN dt

\* the alias-table entries whose slot identifier is idx
Aliases(ks, idx) == {k \in DOMAIN ks : ks[k] = idx}

\* the keys other than k that share k's slot
Sharers(ks, k) == Aliases(ks, ks[k]) \ {k}

Slots(ks) == {ks[k] : k \in DOMAIN ks}

PairwiseDistinct(seq) ==
    \A i, j \in 1 .. Len(seq) : i # j => seq[i] # seq[j]

\* the locals of insert_many(seq, _) called in the current state, at the
\* moment the first n keys of seq have been processed
InsertManyAfter(seq, n) ==
    insert_many_loop(keys, data, max_index, 0, <<>>, SubSeq(seq, 1, n), 1)

\* key number i of seq is processed, and is absent or shares its group then
MovedAt(seq, i) ==
    LET p == InsertManyAfter(seq, i - 1)
        k == seq[i]
    IN  /\ ~p.panic
        /\ \/ k \notin DOMAIN p.keys
           \/ Live(p.keys, p.data, k) /\ p.data[p.keys[k]].count > 1

\* key number i of seq is processed, and its group has count <= 1 then
SoleAt(seq, i) ==
    LET p == InsertManyAfter(seq, i - 1)
        k == seq[i]
    IN  /\ ~p.panic
        /\ Live(p.keys, p.data, k)
        /\ p.data[p.keys[k]].count <= 1

----------------------------------------------------------------------------
(* The properties. *)

\* No key targets a group whose count is 0, so remove never subtracts from 0.
KeyedCountPositive ==
    \A k \in DOMAIN keys : keys[k] \in DOMAIN data => data[keys[k]].count >= 1

\* C1: in every reachable state, the stored reference count of every group
\* table entry equals the number of alias table entries whose slot identifier
\* is that entry's identifier.
C1_CountEqualsAliases ==
    \A i \in DOMAIN data : data[i].count = Cardinality(Aliases(keys, i))

\* C2: without insert_many and remove_entry, every alias table entry targets a
\* live group: contains_key(k) implies that get(k) is not empty.
C2_AliasesLive ==
    \A k \in Keys : contains_key(keys, k) => get(keys, data, k) # None

\* a shared group has lost one of its keys and the other key still resolves
C2_Witness ==
    /\ last.path = "shared"
    /\ \E k \in DOMAIN keys : get(keys, data, k) # None

\* C3: every public operation completes without panicking.
C3_NoPanic == last.path # "panic"

\* C4: when k is present and its group's count is greater than 1, insert(k, v)
\* returns None, decrements the group's count by exactly 1, points k at a
\* freshly allocated slot holding (1, v) and leaves the old group's value as it
\* was; afterwards get(k) = v and every other key of the old group still
\* resolves to the old value.
C4_DetachOnSharedOverwrite ==
    \A k \in Keys, v \in Values :
        (Live(keys, data, k) /\ data[keys[k]].count > 1) =>
            LET r == insert(keys, data, max_index, k, v)
                old == keys[k]
            IN  /\ r.path # "panic"
                /\ r.ret = None
                /\ old \in DOMAIN r.data
                /\ r.data[old].count = data[old].count - 1
                /\ r.data[old].v = data[old].v
                /\ k \in DOMAIN r.keys
                /\ r.keys[k] \notin DOMAIN data \cup Slots(keys)
                /\ r.keys[k] \in DOMAIN r.data
                /\ r.data[r.keys[k]] = [count |-> 1, v |-> v]
                /\ get(r.keys, r.data, k) = Some(v)
                /\ \A j \in Sharers(keys, k) :
                       /\ j \in DOMAIN r.keys
                       /\ r.keys[j] = old
                       /\ get(r.keys, r.data, j) = Some(data[old].v)
                /\ \A g \in DOMAIN data \ {old} :
                       g \in DOMAIN r.data /\ r.data[g] = data[g]

\* insert has detached a key and another key still resolves through the old
\* group
C4_Witness ==
    /\ last.path = "detach"
    /\ \E k, j \in DOMAIN keys :
           /\ keys[k] = max_index - 1
           /\ keys[j] # keys[k]
           /\ get(keys, data, k) # None
           /\ get(keys, data, j) # None

\* C5: insert(k, v) on a present key k returns the previous value exactly when
\* no other key aliases k's group, and then overwrites in place, keeping the
\* slot and the counter; it returns None exactly when another key aliases
\* k's group.
C5_PreviousValueIffSoleOwner ==
    \A k \in DOMAIN keys, v \in Values :
        Alive =>
        LET r == insert(keys, data, max_index, k, v) IN
        IF Sharers(keys, k) = {}
        THEN /\ r.path # "panic"
             /\ keys[k] \in DOMAIN data
             /\ r.ret = Some(data[keys[k]].v)
             /\ r.keys = keys
             /\ r.max_index = max_index
             /\ get(r.keys, r.data, k) = Some(v)
        ELSE /\ r.path # "panic"
             /\ r.ret = None

\* C6: where k resolves to a live group, remove(k) deletes k's alias; it
\* returns the group's value and deletes the group exactly when no other key
\* shares the group; otherwise it returns None, decrements the count by 1 and
\* the other keys still resolve to the same value.  remove of an absent key
\* returns None and changes nothing.  Removing the two keys of one group, in
\* either order, returns the value on the second removal only.
C6_RemoveByLastOwner ==
    /\ \A k \in Keys :
           (Alive /\ Live(keys, data, k)) =>
               LET r == remove(keys, data, max_index, k)
                   old == keys[k]
               IN  /\ r.path # "panic"
                   /\ k \notin DOMAIN r.keys
                   /\ IF Sharers(keys, k) = {}
                      THEN /\ r.ret = Some(data[old].v)
                           /\ old \notin DOMAIN r.data
                      ELSE /\ r.ret = None
                           /\ old \in DOMAIN r.data
                           /\ r.data[old].count = data[old].count - 1
                           /\ \A j \in Sharers(keys, k) :
                                  get(r.keys, r.data, j) = Some(data[old].v)
    /\ \A k \in Keys \ DOMAIN keys :
           LET r == remove(keys, data, max_index, k) IN
           /\ r.ret = None
           /\ r.keys = keys /\ r.data = data /\ r.max_index = max_index
    /\ \A seq \in KeySeqs :
           ( /\ Alive
             /\ Len(seq) > 0
             /\ PairwiseDistinct(seq)
             /\ Live(keys, data, seq[1])
             /\ Aliases(keys, keys[seq[1]]) = {seq[i] : i \in 1 .. Len(seq)} )
           => remove_many(keys, data, max_index, seq).ret
                  = <<data[keys[seq[1]]].v>>

\* C7: if k is not in the alias table, alias(k, newKey) returns the error
\* carrying newKey and alias_many(k, newKeys) the error carrying newKeys, and
\* both leave the alias table, the group table and the counter unchanged.
C7_AliasAbsentFailsClosed ==
    \A k \in Keys \ DOMAIN keys :
        /\ \A newKey \in Keys :
               LET r == alias(keys, data, max_index, k, newKey) IN
               /\ r.path = "err"
               /\ r.rej = <<newKey>>
               /\ r.keys = keys /\ r.data = data /\ r.max_index = max_index
        /\ \A newKeys \in KeySeqs :
               LET r == alias_many(keys, data, max_index, k, newKeys) IN
               /\ r.path = "err_many"
               /\ r.rej = newKeys
               /\ r.keys = keys /\ r.data = data /\ r.max_index = max_index

\* an alias on an absent base has failed in a map that holds a key
C7_Witness ==
    /\ last.path \in {"err", "err_many"}
    /\ DOMAIN keys # {}
    /\ DOMAIN keys # Keys

\* C8: when k resolves to a live group, alias(k, newKey) increments the
\* group's count by 1, points newKey at k's slot without allocating, and
\* returns a view of the shared value: get(newKey) = get(k) afterwards, and a
\* later write through get_mut or and_modify on either key is seen through the
\* other.
C8_AliasSharesSlot ==
    \A k \in Keys, newKey \in Keys :
        Live(keys, data, k) =>
            LET r == alias(keys, data, max_index, k, newKey)
                idx == keys[k]
            IN  /\ r.path = "ok"
                /\ r.ret = Some(data[idx].v)
                /\ r.slot = Some(idx)
                /\ r.max_index = max_index
                /\ DOMAIN r.data = DOMAIN data
                /\ r.data[idx].count = data[idx].count + 1
                /\ r.data[idx].v = data[idx].v
                /\ newKey \in DOMAIN r.keys /\ r.keys[newKey] = idx
                /\ k \in DOMAIN r.keys /\ r.keys[k] = idx
                /\ get(r.keys, r.data, newKey) = get(r.keys, r.data, k)
                /\ get(r.keys, r.data, k) = Some(data[idx].v)
                /\ \A w \in Values :
                       LET g == get_mut(r.keys, r.data, r.max_index, k, w)
                           h == get_mut(r.keys, r.data, r.max_index, newKey, w)
                       IN  /\ get(g.keys, g.data, newKey) = Some(w)
                           /\ get(h.keys, h.data, k) = Some(w)
                /\ \A f \in ValueFns :
                       LET g == and_modify(r.keys, r.data, r.max_index, k, f)
                       IN  get(g.keys, g.data, newKey) = Some(f[data[idx].v])

\* alias has put both keys on one live slot
C8_Witness ==
    /\ last.path = "ok"
    /\ DOMAIN keys = Keys
    /\ \A k \in Keys : keys[k] = keys["a"] /\ Live(keys, data, k)
    /\ data[keys["a"]].count = 2

\* C9: insert_many(seq, v) with pairwise distinct keys allocates exactly one
\* fresh slot; every key that is absent or shares its group when it is
\* processed ends up resolving to v through that slot; each previously shared
\* group loses 1 per key moved; the fresh slot's count is the number of keys
\* moved.
C9_InsertManyMovesKeys ==
    \A seq \in KeySeqs, v \in Values :
        (Alive /\ PairwiseDistinct(seq)) =>
            LET r == insert_many(keys, data, max_index, seq, v)
                moved == {i \in 1 .. Len(seq) : MovedAt(seq, i)}
            IN  /\ r.max_index = max_index + 1
                /\ max_index \notin DOMAIN data \cup Slots(keys)
                /\ DOMAIN r.data \subseteq DOMAIN data \cup {max_index}
                /\ max_index \in DOMAIN r.data
                /\ r.data[max_index] = [count |-> Cardinality(moved), v |-> v]
                /\ \A i \in moved :
                       /\ seq[i] \in DOMAIN r.keys
                       /\ r.keys[seq[i]] = max_index
                       /\ get(r.keys, r.data, seq[i]) = Some(v)
                /\ \A g \in DOMAIN data \cap DOMAIN r.data :
                       r.data[g].count = data[g].count
                           - Cardinality({i \in moved :
                                 seq[i] \in DOMAIN keys /\ keys[seq[i]] = g})
                /\ (DOMAIN keys \cap {seq[i] : i \in 1 .. Len(seq)} = {}) =>
                       \A i \in 1 .. Len(seq) :
                           /\ r.keys[seq[i]] = max_index
                           /\ r.data[max_index].count = Len(seq)

C11_RemoveEntryIgnoresCount ==
    \A k \in Keys :
        Live(keys, data, k) =>
            LET e == entry(keys, k)
                old == keys[k]
                r == remove_entry(keys, data, max_index, e)
                m == remove(keys, data, max_index, k)
                o == occupied_remove(keys, data, max_index, e)
            IN  /\ e.tag = "Occupied"
                /\ r.path # "panic"
                /\ r.rej = <<k>>
                /\ r.ret = Some(data[old].v)
                /\ r.data = Del(data, old)
                /\ old \notin DOMAIN r.data
                /\ r.keys = Del(keys, k)
                /\ r.max_index = max_index
                /\ data[old].count > 1 =>
                       /\ \A j \in Sharers(keys, k) :
                              /\ contains_key(r.keys, j)
                              /\ get(r.keys, r.data, j) = None
                       /\ m.ret = None
                       /\ o.ret = None
                       /\ o = m
                       /\ old \in DOMAIN m.data
                       /\ m.data[old].v = data[old].v
                       /\ \A j \in Sharers(keys, k) :
                              get(m.keys, m.data, j) = Some(data[old].v)

\* remove_entry has deleted a shared group: the other key is left on the
\* deleted slot
C11_Witness ==
    /\ last.path = "removed_entry"
    /\ Cardinality(DOMAIN keys) = 1
    /\ \E j \in DOMAIN keys : keys[j] \notin DOMAIN data

\* the pairs whose key is in the alias table with a live slot
LivePairs == {<<k, data[keys[k]].v>> : k \in {j \in DOMAIN keys : Live(keys, data, j)}}

Range(seq) == {seq[i] : i \in 1 .. Len(seq)}

\* C12: in every reachable state and for every order of the alias table,
\* iter yields a pair for every alias table entry whose slot is live and
\* omits only the entries whose slot lookup fails: a failed lookup does not
\* end the iteration before later live entries are yielded.
C12_IterSkipsDangling ==
    Alive => \A order \in Orders(keys) : Range(iter(keys, data, order)) = LivePairs

\* C13: where every alias targets a live group, iter yields exactly one pair
\* per alias table entry: as many pairs as keys, each key once, each with the
\* value get returns for it, and keys of one group with the same value.
C13_IterOnePairPerAlias ==
    (\A k \in DOMAIN keys : Live(keys, data, k)) =>
        \A order \in Orders(keys) :
            LET pairs == iter(keys, data, order) IN
            /\ Len(pairs) = Cardinality(DOMAIN keys)
            /\ \A k \in DOMAIN keys :
                   Cardinality({i \in 1 .. Len(pairs) : pairs[i][1] = k}) = 1
            /\ \A i \in 1 .. Len(pairs) :
                   get(keys, data, pairs[i][1]) = Some(pairs[i][2])
            /\ \A i, j \in 1 .. Len(pairs) :
                   keys[pairs[i][1]] = keys[pairs[j][1]] =>
                       pairs[i][2] = pairs[j][2]

\* iter has run over two keys that share one group
C13_Witness ==
    /\ last.path = "iterated"
    /\ DOMAIN keys = Keys
    /\ \A k \in Keys : Live(keys, data, k) /\ keys[k] = keys["a"]

\* the identifiers stored in the alias table or the group table
StoredIds(ks, dt) == DOMAIN dt \cup {ks[k] : k \in DOMAIN ks}

\* C14: slot identifiers are never reused. In every reachable state the
\* counter is strictly greater than every identifier stored in either table;
\* in every step the counter does not decrease and every identifier that
\* enters a table is at least the counter before the step, hence one that was
\* never stored before, even after removals.
C14_IdentifiersNeverReused ==
    /\ [](\A id \in StoredIds(keys, data) : id < max_index)
    /\ [][/\ max_index' >= max_index
          /\ \A id \in StoredIds(keys', data') \ StoredIds(keys, data) :
                 /\ id >= max_index
                 /\ id < max_index']_vars

\* an allocation after a removal: slot 0 is gone and the new group took
\* identifier 1
C14_Witness ==
    /\ last.path \in {"fresh", "vacant"}
    /\ max_index = 2
    /\ DOMAIN data = {1}
    /\ \E k \in DOMAIN keys : keys[k] = 1

\* C15: every group table entry has a count of at least 1 and is the target
\* of at least one alias table entry, so no group holds a value that no key
\* can reach.
C15_NoOrphanGroup ==
    \A idx \in DOMAIN data :
        /\ data[idx].count >= 1
        /\ Aliases(keys, idx) # {}

\* the tables and the counter of an outcome
StateOf(r) == <<r.keys, r.data, r.max_index>>

\* C16: entry(k) is Occupied iff k is in the alias table. For k absent,
\* or_insert(v), or_insert_with, or_insert_with_key, or_default and
\* VacantEntry::insert produce the state insert(k, v) produces: a fresh slot
\* (count 1, v) aliased by k. For k with a live group, or_insert(v) leaves
\* both tables and the counter unchanged and returns the existing value, so
\* applying it twice gives the state of applying it once.
C16_EntryOrInsert ==
    \A k \in Keys :
        LET e == entry(keys, k) IN
        /\ e.tag = (IF k \in DOMAIN keys THEN "Occupied" ELSE "Vacant")
        /\ \A v \in Values :
               LET r == or_insert(keys, data, max_index, k, v)
                   r2 == or_insert(r.keys, r.data, r.max_index, k, v)
                   ins == insert(keys, data, max_index, k, v)
               IN  /\ k \notin DOMAIN keys =>
                          /\ StateOf(r) = StateOf(ins)
                          /\ r.keys = Put(keys, k, max_index)
                          /\ r.data = Put(data, max_index, [count |-> 1, v |-> v])
                          /\ r.max_index = max_index + 1
                          /\ r.ret = Some(v)
                          /\ StateOf(vacant_insert(keys, data, max_index, e, v))
                                 = StateOf(ins)
                          /\ StateOf(or_insert_with(keys, data, max_index, k, v))
                                 = StateOf(ins)
                          /\ \A f \in KeyFns :
                                 f[k] = v =>
                                     StateOf(or_insert_with_key(keys, data,
                                                                max_index, k, f))
                                         = StateOf(ins)
                          /\ v = DefaultVal =>
                                 StateOf(or_default(keys, data, max_index, k))
                                     = StateOf(ins)
                   /\ Live(keys, data, k) =>
                          /\ StateOf(r) = <<keys, data, max_index>>
                          /\ r.ret = Some(data[keys[k]].v)
                   /\ (k \notin DOMAIN keys \/ Live(keys, data, k)) =>
                          /\ r.path # "panic"
                          /\ r2.path # "panic"
                          /\ StateOf(r2) = StateOf(r)

\* an occupied entry has just been resolved: one key has a live group with
\* value 1 (or_insert(0) must return 1 and store nothing), another is absent
C16_Witness ==
    /\ last.path = "occupied"
    /\ \E k \in Keys : Live(keys, data, k) /\ data[keys[k]].v = 1
    /\ \E k \in Keys : k \notin DOMAIN keys

\* every group's count equals its number of aliases in the outcome r
CountsExact(r) ==
    \A i \in DOMAIN r.data : r.data[i].count = Cardinality(Aliases(r.keys, i))

\* C17: alias and alias_many preserve the reference-count invariant also when
\* a new key is already in the map: if every group's count equals its number
\* of aliases before a successful alias(k, newKey) or alias_many(k, aliases),
\* the same is true afterwards.
C17_AliasKeepsCountsExact ==
    (Alive /\ C1_CountEqualsAliases) =>
        \A k \in DOMAIN keys :
            /\ \A newKey \in Keys :
                   CountsExact(alias(keys, data, max_index, k, newKey))
            /\ \A aliases \in KeySeqs :
                   CountsExact(alias_many(keys, data, max_index, k, aliases))

\* C18: insert_many(seq, v) with a key that occurs more than once in seq, all
\* keys of seq being absent or live before the call, completes without
\* panicking, leaves every key of seq resolving to v and counts each key once
\* in the fresh slot.
C18_InsertManyRepeatedKey ==
    Alive =>
        \A seq \in KeySeqs :
            (/\ ~PairwiseDistinct(seq)
             /\ \A i \in 1 .. Len(seq) :
                    seq[i] \notin DOMAIN keys \/ Live(keys, data, seq[i])) =>
                \A v \in Values :
                    LET r == insert_many(keys, data, max_index, seq, v) IN
                    /\ r.path # "panic"
                    /\ \A i \in 1 .. Len(seq) :
                           get(r.keys, r.data, seq[i]) = Some(v)
                    /\ r.data[max_index].count
                           <= Cardinality({seq[i] : i \in 1 .. Len(seq)})

\* C19: the stored count of a group is never smaller than the number of alias
\* table entries that target it, and a completed insert(k, v) or remove(k)
\* changes neither contains_key(k2) nor get(k2) for any other key k2: it
\* never deletes or overwrites a value still reachable through another key.
C19_CountCoversAliases ==
    /\ \A i \in DOMAIN data : data[i].count >= Cardinality(Aliases(keys, i))
    /\ \A k \in Keys :
           LET rm == remove(keys, data, max_index, k)
               Same(r) == \A k2 \in Keys \ {k} :
                              /\ contains_key(r.keys, k2) = contains_key(keys, k2)
                              /\ get(r.keys, r.data, k2) = get(keys, data, k2)
           IN  /\ rm.path # "panic" => Same(rm)
               /\ \A v \in Values :
                      LET ins == insert(keys, data, max_index, k, v) IN
                      ins.path # "panic" => Same(ins)

\* remove has just deleted a group with its last key while another key still
\* resolves to a value
C19_Witness ==
    /\ last.path = "last"
    /\ \E k \in DOMAIN keys : Live(keys, data, k)

====
